---- MODULE Spec2Model ----
(***************************************************************************)
(* Turn-taking arbiter (server.py) and its two scripted clients            *)
(* (client.py).  The server accepts two TCP connections, starts one        *)
(* handle_client thread per connection and lets the sessions transmit in   *)
(* turn: GO to the session whose identity equals the shared variable turn, *)
(* WAIT to the other.  Every thread is modelled at statement granularity;  *)
(* a TCP connection is a pair of unterminated streams, so that one recv    *)
(* may return several sends concatenated.                                  *)
(***************************************************************************)
EXTENDS Integers, Sequences, FiniteSets, TLC

\* ------------------------------------------------------------------ bounds
\* Largest counter value a client transmits.
MaxNum == 4
\* Signals a connection buffers before sendall blocks.
MaxBuf == 3

\* ---------------------------------------------------------------- constants
\* recv(1024): the most bytes one read returns.
RecvSize == 1024
\* current_number += 2
StepOne == 2 - 1
Step == 2

Ids == {1, 2}
Clients == {1, 2}

\* client.py __main__: client c is started as ("Client<c>", c).
MainName(c) == IF c = 1 THEN <<"Client1">> ELSE <<"Client2">>
start_number(c) == c

\* A name is a sequence of text pieces; the piece ":" is a colon.  client()
\* takes any name, so a name holding a colon is a possible argument.
ColonName == <<"a", ":", "b">>
Names(c) == {MainName(c), ColonName}

VARIABLES
  client_name,    \* client c's argument client_name
  current_number, \* client c's current_number
  response,       \* client c's last decoded read
  cpc,            \* client c's position: init, recv, handle, sleep, dead
  backlog,        \* connections completed by the listening socket, not yet accepted
  mpc,            \* server(): accept1, accept2, exit
  conn,           \* conn[i]: the client whose connection handler i serves (0: none)
  hpc,            \* handle_client(i): idle, poll, locked, recv, sleep, done
  lock,           \* holder of threading.Lock (0: free)
  turn,           \* the shared turn
  s2c,            \* per connection: signals sent by the server, unread by the client
  c2s,            \* per connection: payloads sent by the client, unread by the server
  srvErr,         \* per connection: the server's socket has seen a reset
  accepted,       \* history: the replies the server parsed, in order
  nGo,            \* history: GO signals sent to session i
  nPay,           \* history: payloads transmitted by client c
  sigs            \* history: the kinds of signal ever sent to session i

vars == <<client_name, current_number, response, cpc, backlog, mpc, conn, hpc,
          lock, turn, s2c, c2s, srvErr, accepted, nGo, nPay, sigs>>

cvars == <<client_name, current_number, response, cpc>>
hist  == <<accepted, nGo, nPay, sigs>>

\* ---------------------------------------------------------------- helpers

\* turn = 2 if client_id == 1 else 1
OtherBad(i) == i
Other(i) == IF i = 1 THEN 2 ELSE 1

\* bytes.decode() of the concatenation of the sends one read returns.
RECURSIVE Concat(_)
Concat(s) == IF s = <<>> THEN "" ELSE Head(s) \o Concat(Tail(s))

\* The pieces of several payloads read at once.
RECURSIVE Flatten(_)
Flatten(s) == IF s = <<>> THEN <<>> ELSE Head(s) \o Flatten(Tail(s))

\* A variant that splits at the first separator only (maxsplit = 1).
split_once(data, sep) ==
  IF \E n \in 1..Len(data) : data[n] = sep
    THEN LET n == CHOOSE n \in 1..Len(data) :
                    data[n] = sep /\ \A m \in 1..(n - 1) : data[m] # sep
         IN  << SubSeq(data, 1, n - 1), SubSeq(data, n + 1, Len(data)) >>
    ELSE << data >>

\* str.split(sep): the fields between the separators.
RECURSIVE split(_, _)
split(data, sep) ==
  IF data = <<>> THEN << <<>> >>
  ELSE IF Head(data) = sep THEN << <<>> >> \o split(Tail(data), sep)
  ELSE LET r == split(Tail(data), sep)
       IN  << <<Head(data)>> \o Head(r) >> \o Tail(r)

\* f"{client_name}:{current_number}"
message(c) == client_name[c] \o <<":">> \o <<ToString(current_number[c])>>

Prefix(s, k) == SubSeq(s, 1, k)
Suffix(s, k) == SubSeq(s, k + 1, Len(s))

\* The session, if any, that serves client c's connection.
Serving(c) == {i \in Ids : conn[i] = c}
SrvClosed(c) == \E i \in Serving(c) : hpc[i] = "done"
CliClosed(c) == cpc[c] = "dead"

\* ------------------------------------------------------------------- Init
Init ==
  /\ client_name \in {f \in [Clients -> UNION {Names(c) : c \in Clients}] :
                        \A c \in Clients : f[c] \in Names(c)}
  /\ current_number = [c \in Clients |-> start_number(c)]
  /\ response = [c \in Clients |-> ""]
  /\ cpc = [c \in Clients |-> "init"]
  /\ backlog = <<>>
  /\ mpc = "accept1"
  /\ conn = [i \in Ids |-> 0]
  /\ hpc = [i \in Ids |-> "idle"]
  /\ lock = 0
  /\ turn = 1
  /\ s2c = [c \in Clients |-> <<>>]
  /\ c2s = [c \in Clients |-> <<>>]
  /\ srvErr = [c \in Clients |-> FALSE]
  /\ accepted = <<>>
  /\ nGo = [i \in Ids |-> 0]
  /\ nPay = [c \in Clients |-> 0]
  /\ sigs = [i \in Ids |-> {}]

\* ------------------------------------------------------------ server.py
\* A variant that starts the first connection's thread with client_id 2.
accept1_as2 ==
  /\ mpc = "accept1"
  /\ backlog # <<>>
  /\ conn' = [conn EXCEPT ![2] = Head(backlog)]
  /\ backlog' = Tail(backlog)
  /\ hpc' = [hpc EXCEPT ![2] = "poll"]
  /\ mpc' = "accept2"
  /\ UNCHANGED <<cvars, lock, turn, s2c, c2s, srvErr, hist>>

\* server(): conn1, addr1 = accept(); Thread(handle_client, (conn1, addr1, 1)).start()
accept1 ==
  /\ mpc = "accept1"
  /\ backlog # <<>>
  /\ conn' = [conn EXCEPT ![1] = Head(backlog)]
  /\ backlog' = Tail(backlog)
  /\ hpc' = [hpc EXCEPT ![1] = "poll"]
  /\ mpc' = "accept2"
  /\ UNCHANGED <<cvars, lock, turn, s2c, c2s, srvErr, hist>>

\* server(): conn2, addr2 = accept(); Thread(handle_client, (conn2, addr2, 2)).start()
accept2 ==
  /\ mpc = "accept2"
  /\ backlog # <<>>
  /\ conn' = [conn EXCEPT ![2] = Head(backlog)]
  /\ backlog' = Tail(backlog)
  /\ hpc' = [hpc EXCEPT ![2] = "poll"]
  /\ mpc' = "exit"
  /\ UNCHANGED <<cvars, lock, turn, s2c, c2s, srvErr, hist>>

\* conn.sendall(sig) returning normally.  Data sent to a peer that has closed
\* is dropped and answered by a reset; a full buffer blocks the call.
sendall(i, sig) ==
  LET c == conn[i] IN
  /\ ~srvErr[c]
  /\ IF CliClosed(c)
       THEN /\ s2c' = s2c
            /\ srvErr' = [srvErr EXCEPT ![c] = TRUE]
       ELSE /\ Len(s2c[c]) < MaxBuf
            /\ s2c' = [s2c EXCEPT ![c] = Append(@, sig)]
            /\ srvErr' = srvErr
  /\ sigs' = [sigs EXCEPT ![i] = @ \cup {sig}]

\* Leaving "with conn": the socket is closed and what it had not read is lost.
close(i) == c2s' = [c2s EXCEPT ![conn[i]] = <<>>]

\* A variant that keeps the lock at the end of the block.
release_kept(i) == lock' = lock

\* Leaving "with lock" at the end of its block.
release(i) == lock' = 0

\* Leaving "with lock" by return or by an exception passing through it.
release_on_exit_kept(i) == lock' = lock
release_on_exit(i) == lock' = 0

\* A variant that grants whatever turn is.
my_turn_always(i) == turn \in {1, 2}

\* if turn == client_id
my_turn_inverted(i) == turn # i
my_turn(i) == turn = i

\* A variant that enters the block without waiting for the lock.
acquire_unlocked(i) ==
  /\ hpc[i] = "poll"
  /\ lock' = i
  /\ hpc' = [hpc EXCEPT ![i] = "locked"]
  /\ UNCHANGED <<cvars, backlog, mpc, conn, turn, s2c, c2s, srvErr, hist>>

\* with lock:  (acquire)
acquire(i) ==
  /\ hpc[i] = "poll"
  /\ lock = 0
  /\ lock' = i
  /\ hpc' = [hpc EXCEPT ![i] = "locked"]
  /\ UNCHANGED <<cvars, backlog, mpc, conn, turn, s2c, c2s, srvErr, hist>>

\* A variant that switches turn and leaves the lock as soon as GO is sent.
send_go_early(i) ==
  /\ hpc[i] = "locked"
  /\ my_turn(i)
  /\ sendall(i, "GO")
  /\ nGo' = [nGo EXCEPT ![i] = @ + 1]
  /\ turn' = Other(i)
  /\ lock' = 0
  /\ hpc' = [hpc EXCEPT ![i] = "recv"]
  /\ UNCHANGED <<cvars, backlog, mpc, conn, c2s, accepted, nPay>>

\* if turn == client_id: conn.sendall(b"GO")
send_go(i) ==
  /\ hpc[i] = "locked"
  /\ my_turn(i)
  /\ sendall(i, "GO")
  /\ nGo' = [nGo EXCEPT ![i] = @ + 1]
  /\ hpc' = [hpc EXCEPT ![i] = "recv"]
  /\ UNCHANGED <<cvars, backlog, mpc, conn, lock, turn, c2s, accepted, nPay>>

\* else: conn.sendall(b"WAIT"); the lock is released on leaving the with block.
send_wait(i) ==
  /\ hpc[i] = "locked"
  /\ ~my_turn(i)
  /\ sendall(i, "WAIT")
  /\ release(i)
  /\ hpc' = [hpc EXCEPT ![i] = "sleep"]
  /\ UNCHANGED <<cvars, backlog, mpc, conn, turn, c2s, accepted, nGo, nPay>>

\* sendall raises ConnectionResetError / BrokenPipeError: except ...: break
send_error(i) ==
  /\ hpc[i] = "locked"
  /\ srvErr[conn[i]]
  /\ release_on_exit(i)
  /\ close(i)
  /\ hpc' = [hpc EXCEPT ![i] = "done"]
  /\ UNCHANGED <<cvars, backlog, mpc, conn, turn, s2c, srvErr, hist>>

\* data = conn.recv(1024).decode() returns k pending payloads;
\* client_name, number = data.split(":") unpacks; turn is switched.
recv_accept(i) ==
  /\ hpc[i] = "recv"
  /\ \E k \in 1..Len(c2s[conn[i]]) :
       LET data   == Flatten(Prefix(c2s[conn[i]], k))
           fields == split(data, ":")
       IN  /\ data # <<>>
           /\ Len(fields) = 2
           /\ accepted' = Append(accepted,
                [id |-> i, name |-> fields[1], number |-> fields[2]])
           /\ c2s' = [c2s EXCEPT ![conn[i]] = Suffix(@, k)]
  /\ turn' = Other(i)
  /\ release(i)
  /\ hpc' = [hpc EXCEPT ![i] = "sleep"]
  /\ UNCHANGED <<cvars, backlog, mpc, conn, s2c, srvErr, nGo, nPay, sigs>>

\* A variant that switches turn before the reply is unpacked.
recv_malformed_flips(i) ==
  /\ hpc[i] = "recv"
  /\ \E k \in 1..Len(c2s[conn[i]]) :
       LET data   == Flatten(Prefix(c2s[conn[i]], k))
           fields == split(data, ":")
       IN  /\ data # <<>>
           /\ Len(fields) # 2
  /\ close(i)
  /\ turn' = Other(i)
  /\ release_on_exit(i)
  /\ hpc' = [hpc EXCEPT ![i] = "done"]
  /\ UNCHANGED <<cvars, backlog, mpc, conn, s2c, srvErr, hist>>

\* data.split(":") does not give two fields: ValueError leaves both with
\* blocks and ends the thread; turn is not assigned.
recv_malformed(i) ==
  /\ hpc[i] = "recv"
  /\ \E k \in 1..Len(c2s[conn[i]]) :
       LET data   == Flatten(Prefix(c2s[conn[i]], k))
           fields == split(data, ":")
       IN  /\ data # <<>>
           /\ Len(fields) # 2
  /\ close(i)
  /\ release_on_exit(i)
  /\ hpc' = [hpc EXCEPT ![i] = "done"]
  /\ UNCHANGED <<cvars, backlog, mpc, conn, turn, s2c, srvErr, hist>>

\* A variant that hands the turn over when the peer has closed.
recv_empty_switches(i) ==
  /\ hpc[i] = "recv"
  /\ c2s[conn[i]] = <<>>
  /\ CliClosed(conn[i])
  /\ turn' = Other(i)
  /\ release_on_exit(i)
  /\ close(i)
  /\ hpc' = [hpc EXCEPT ![i] = "done"]
  /\ UNCHANGED <<cvars, backlog, mpc, conn, s2c, srvErr, hist>>

\* recv returns b"" (the peer closed): if not data: return
recv_empty(i) ==
  /\ hpc[i] = "recv"
  /\ c2s[conn[i]] = <<>>
  /\ CliClosed(conn[i])
  /\ release_on_exit(i)
  /\ close(i)
  /\ hpc' = [hpc EXCEPT ![i] = "done"]
  /\ UNCHANGED <<cvars, backlog, mpc, conn, turn, s2c, srvErr, hist>>

\* recv raises ConnectionResetError: except ...: break
recv_error(i) ==
  /\ hpc[i] = "recv"
  /\ srvErr[conn[i]]
  /\ release_on_exit(i)
  /\ close(i)
  /\ hpc' = [hpc EXCEPT ![i] = "done"]
  /\ UNCHANGED <<cvars, backlog, mpc, conn, turn, s2c, srvErr, hist>>

\* A variant whose outer loop goes round again after the handler has ended.
wake_after_exit(i) ==
  /\ hpc[i] \in {"sleep", "done"}
  /\ hpc' = [hpc EXCEPT ![i] = "poll"]
  /\ UNCHANGED <<cvars, backlog, mpc, conn, lock, turn, s2c, c2s, srvErr, hist>>

\* time.sleep(0.1) returns; the loop polls again.
wake(i) ==
  /\ hpc[i] = "sleep"
  /\ hpc' = [hpc EXCEPT ![i] = "poll"]
  /\ UNCHANGED <<cvars, backlog, mpc, conn, lock, turn, s2c, c2s, srvErr, hist>>

handle_client(i) ==
  \/ acquire(i)
  \/ send_go(i)
  \/ send_wait(i)
  \/ send_error(i)
  \/ recv_accept(i)
  \/ recv_malformed(i)
  \/ recv_empty(i)
  \/ recv_error(i)
  \/ wake(i)

\* ------------------------------------------------------------ client.py
\* The client's socket is closed (its thread or process ended): unread
\* signals are discarded and, if there were any, the server's side is reset.
cclose(c) ==
  /\ s2c' = [s2c EXCEPT ![c] = <<>>]
  /\ srvErr' = [srvErr EXCEPT ![c] = @ \/ (s2c[c] # <<>> /\ ~SrvClosed(c))]

\* client_socket.connect((host, port)): completed by the listening socket.
connect(c) ==
  /\ cpc[c] = "init"
  /\ mpc # "exit"
  /\ backlog' = Append(backlog, c)
  /\ cpc' = [cpc EXCEPT ![c] = "recv"]
  /\ UNCHANGED <<client_name, current_number, response, mpc, conn, hpc, lock, turn,
                 s2c, c2s, srvErr, hist>>

\* response = client_socket.recv(1024).decode(): the next k signals, at most
\* 1024 bytes, arrive as one string.
client_recv(c) ==
  /\ cpc[c] = "recv"
  /\ \E k \in 1..Len(s2c[c]) :
       /\ Len(Concat(Prefix(s2c[c], k))) <= RecvSize
       /\ response' = [response EXCEPT ![c] = Concat(Prefix(s2c[c], k))]
       /\ s2c' = [s2c EXCEPT ![c] = Suffix(@, k)]
  /\ cpc' = [cpc EXCEPT ![c] = "handle"]
  /\ UNCHANGED <<client_name, current_number, backlog, mpc, conn, hpc, lock, turn,
                 c2s, srvErr, hist>>

\* recv returns b"" once the server has closed the connection.
client_recv_eof(c) ==
  /\ cpc[c] = "recv"
  /\ s2c[c] = <<>>
  /\ SrvClosed(c)
  /\ response' = [response EXCEPT ![c] = ""]
  /\ cpc' = [cpc EXCEPT ![c] = "handle"]
  /\ UNCHANGED <<client_name, current_number, backlog, mpc, conn, hpc, lock, turn,
                 s2c, c2s, srvErr, hist>>

\* if response == "GO": sendall(f"{client_name}:{current_number}");
\* current_number += 2
client_go(c) ==
  /\ cpc[c] = "handle"
  /\ response[c] = "GO"
  /\ current_number[c] <= MaxNum
  /\ c2s' = IF SrvClosed(c) THEN c2s
            ELSE [c2s EXCEPT ![c] = Append(@, message(c))]
  /\ nPay' = [nPay EXCEPT ![c] = @ + 1]
  /\ current_number' = [current_number EXCEPT ![c] = @ + Step]
  /\ cpc' = [cpc EXCEPT ![c] = "sleep"]
  /\ UNCHANGED <<client_name, response, backlog, mpc, conn, hpc, lock, turn,
                 s2c, srvErr, accepted, nGo, sigs>>

\* A variant that transmits on WAIT as well.
client_wait_sends(c) ==
  /\ cpc[c] = "handle"
  /\ response[c] = "WAIT"
  /\ current_number[c] <= MaxNum
  /\ c2s' = IF SrvClosed(c) THEN c2s
            ELSE [c2s EXCEPT ![c] = Append(@, message(c))]
  /\ nPay' = [nPay EXCEPT ![c] = @ + 1]
  /\ current_number' = [current_number EXCEPT ![c] = @ + Step]
  /\ cpc' = [cpc EXCEPT ![c] = "sleep"]
  /\ UNCHANGED <<client_name, response, backlog, mpc, conn, hpc, lock, turn,
                 s2c, srvErr, accepted, nGo, sigs>>

\* elif response == "WAIT": time.sleep(0.1)
client_wait(c) ==
  /\ cpc[c] = "handle"
  /\ response[c] = "WAIT"
  /\ cpc' = [cpc EXCEPT ![c] = "sleep"]
  /\ UNCHANGED <<client_name, current_number, response, backlog, mpc, conn, hpc,
                 lock, turn, s2c, c2s, srvErr, hist>>

\* Neither branch: the loop reads again at once.
client_other(c) ==
  /\ cpc[c] = "handle"
  /\ response[c] # "GO"
  /\ response[c] # "WAIT"
  /\ cpc' = [cpc EXCEPT ![c] = "recv"]
  /\ UNCHANGED <<client_name, current_number, response, backlog, mpc, conn, hpc,
                 lock, turn, s2c, c2s, srvErr, hist>>

\* time.sleep returns.
client_wake(c) ==
  /\ cpc[c] = "sleep"
  /\ cpc' = [cpc EXCEPT ![c] = "recv"]
  /\ UNCHANGED <<client_name, current_number, response, backlog, mpc, conn, hpc,
                 lock, turn, s2c, c2s, srvErr, hist>>

\* The client is stopped from outside (no supervisor restarts it).
client_stop(c) ==
  /\ cpc[c] \in {"recv", "handle", "sleep"}
  /\ cclose(c)
  /\ cpc' = [cpc EXCEPT ![c] = "dead"]
  /\ UNCHANGED <<client_name, current_number, response, backlog, mpc, conn, hpc,
                 lock, turn, c2s, hist>>

client(c) ==
  \/ connect(c)
  \/ client_recv(c)
  \/ client_recv_eof(c)
  \/ client_go(c)
  \/ client_wait(c)
  \/ client_other(c)
  \/ client_wake(c)

server == accept1 \/ accept2

\* ---------------------------------------------------------- specification
Next ==
  \/ server
  \/ \E i \in Ids : handle_client(i)
  \/ \E c \in Clients : client(c)
  \/ \E c \in Clients : client_stop(c)

Spec == Init /\ [][Next]_vars

\* Both clients run as client.py starts them, none is stopped, and every
\* thread that can take a step eventually takes one (a thread waiting for
\* the lock gets it if it is free again and again).
InitMain == Init /\ client_name = [c \in Clients |-> MainName(c)]

handle_live(i) ==
  \/ acquire(i)
  \/ send_go(i)
  \/ send_wait(i)
  \/ recv_accept(i)
  \/ wake(i)

client_live(c) ==
  \/ connect(c)
  \/ client_recv(c)
  \/ client_go(c)
  \/ client_wait(c)
  \/ client_other(c)
  \/ client_wake(c)

NextLive ==
  \/ server
  \/ \E i \in Ids : handle_live(i)
  \/ \E c \in Clients : client_live(c)

FairSpec ==
  /\ InitMain
  /\ [][NextLive]_vars
  /\ WF_vars(server)
  /\ \A i \in Ids : SF_vars(handle_live(i))
  /\ \A c \in Clients : WF_vars(client_live(c))

\* ------------------------------------------------------------ properties
FromSession(i) == {n \in DOMAIN accepted : accepted[n].id = i}

\* C1: the identities of the accepted replies read 1,2,1,2,...: the first
\* is from session 1 and no two consecutive ones are from the same session.
AcceptedAlternates ==
  \A n \in DOMAIN accepted : accepted[n].id = (IF n % 2 = 1 THEN 1 ELSE 2)

AcceptedAlternatesWitness ==
  /\ Len(accepted) >= 3
  /\ accepted[1].id = 1 /\ accepted[2].id = 2 /\ accepted[3].id = 1

\* The strings a client can have read that hold a GO.
GoResponses ==
  {Concat(q) : q \in {q \in UNION {[1..n -> {"GO", "WAIT"}] : n \in 1..(MaxBuf + 1)} :
                         \E n \in DOMAIN q : q[n] = "GO"}}

\* A GO sent to session i is in flight, or in the string its client has
\* just read and not yet acted on.
GoPending(i) ==
  /\ conn[i] # 0
  /\ \/ \E n \in DOMAIN s2c[conn[i]] : s2c[conn[i]][n] = "GO"
     \/ cpc[conn[i]] = "handle" /\ response[conn[i]] \in GoResponses

\* C2: while a GO sent to session i is in flight or being read by its
\* client, turn = i.
GoOnlyOnTurn == \A i \in Ids : GoPending(i) => turn = i

GoOnlyOnTurnWitness ==
  /\ GoPending(2)
  /\ cpc[conn[2]] = "handle"
  /\ Len(accepted) >= 1

\* C3: turn = 1 after an even number of accepted replies, 2 after an odd
\* number, whatever else has happened (disconnects, malformed replies).
TurnParity == turn = (IF Len(accepted) % 2 = 0 THEN 1 ELSE 2)

TurnParityWitness ==
  /\ Len(accepted) = 1
  /\ turn = 2
  /\ hpc[2] = "done" /\ cpc[conn[2]] # "dead"
  /\ hpc[1] = "sleep" /\ "WAIT" \in sigs[1]

\* Session i has been sent a GO whose reply has not been accepted, and its
\* handler has not terminated.
Outstanding(i) ==
  /\ hpc[i] # "done"
  /\ nGo[i] > Cardinality(FromSession(i))

\* C4: the two sessions never both have an outstanding GO.
OneGrantAtATime == ~(Outstanding(1) /\ Outstanding(2))

OneGrantAtATimeWitness ==
  /\ Outstanding(2)
  /\ hpc[1] \in {"poll", "sleep"}
  /\ Len(accepted) >= 3

\* C5: with Client1 (start 1) accepted first and Client2 (start 2) second,
\* the n-th accepted reply is Client1:n for odd n and Client2:n for even n.
InOrder ==
  /\ conn[1] = 1
  /\ \A c \in Clients : client_name[c] = MainName(c)

LockstepSequence ==
  InOrder =>
    \A n \in DOMAIN accepted :
      /\ accepted[n].number = <<ToString(n)>>
      /\ accepted[n].name = (IF n % 2 = 1 THEN <<"Client1">> ELSE <<"Client2">>)

LockstepSequenceWitness ==
  /\ InOrder
  /\ conn[2] = 2
  /\ Len(accepted) = 4


\* C6: with both clients connected and never stopped, and every thread
\* scheduled fairly, the exchange goes on: the n-th reply is eventually
\* accepted, for every n the clients' counters reach.
LockstepContinues == \A n \in 1..(MaxNum - 1) : <>(Len(accepted) >= n)

StalledPeerStallsOnlyItself ==
  \A i \in Ids :
    ( /\ hpc[i] = "recv"
      /\ ~CliClosed(conn[i])
      /\ c2s[conn[i]] = <<>>
      /\ hpc[Other(i)] = "poll" )
    => ENABLED acquire(Other(i))

\* C9: when handler i ends (empty read, reset, broken pipe) the step leaves
\* the lock free and the other handler where it was; afterwards the lock is
\* never held by i, and the other handler, whenever it polls, can take it.
DisconnectIsolated ==
  /\ [][\A i \in Ids :
          (hpc[i] # "done" /\ hpc'[i] = "done") =>
            (lock' = 0 /\ hpc'[Other(i)] = hpc[Other(i)])]_vars
  /\ [](\A i \in Ids :
          hpc[i] = "done" =>
            /\ lock # i
            /\ hpc[Other(i)] = "poll" => ENABLED acquire(Other(i)))

DisconnectIsolatedWitness ==
  \E i \in Ids :
    /\ hpc[i] = "done"
    /\ cpc[conn[i]] = "dead"
    /\ lock = Other(i)
    /\ hpc[Other(i)] = "locked"

\* The colons of a reply.
RECURSIVE Colons(_)
Colons(data) ==
  IF data = <<>> THEN 0
  ELSE (IF Head(data) = ":" THEN 1 ELSE 0) + Colons(Tail(data))

\* Handler i is in recv and what its connection holds for it does not have
\* exactly one colon.
MalformedPending(i) ==
  /\ hpc[i] = "recv"
  /\ c2s[conn[i]] # <<>>
  /\ Colons(Flatten(c2s[conn[i]])) # 1

\* C10: handler i's step on a reply without exactly one colon ends handler
\* i, leaves turn and the accepted replies as they were, frees the lock,
\* closes the connection and leaves the other handler where it was.
MalformedFatalToSessionOnly ==
  [][\A i \in Ids :
       (MalformedPending(i) /\ hpc'[i] # hpc[i]) =>
         /\ hpc'[i] = "done"
         /\ turn' = turn
         /\ accepted' = accepted
         /\ lock' = 0
         /\ SrvClosed(conn[i])'
         /\ hpc'[Other(i)] = hpc[Other(i)]]_vars

MalformedFatalToSessionOnlyWitness ==
  \E i \in Ids :
    /\ hpc[i] = "done"
    /\ turn = i
    /\ cpc[conn[i]] # "dead"
    /\ nPay[conn[i]] = 1
    /\ FromSession(i) = {}
    /\ hpc[Other(i)] = "locked" /\ lock = Other(i)

\* C11: once the server has closed client c's connection and the client's
\* read has returned no data, the client's next step leaves its loop (the
\* thread ends) instead of reading again.
ClientStopsOnDisconnect ==
  [][\A c \in Clients :
       (SrvClosed(c) /\ cpc[c] = "handle" /\ response[c] = "" /\ cpc'[c] # cpc[c])
         => cpc'[c] = "dead"]_vars

\* Handler i is inside the block that "with lock" protects.
InSection(i) == hpc[i] \in {"locked", "recv"}

\* Handler i has read turn = i and not yet written the switched value.
InFlip(i) == hpc[i] = "recv" \/ (hpc[i] = "locked" /\ turn = i)

\* C12: the two handlers are never inside the lock-protected block together,
\* and while handler i is between reading turn = i and writing the switched
\* value, the other handler does not enter the block, sends no signal and
\* does not write turn.
FlipIsAtomic ==
  /\ [](/\ ~(InSection(1) /\ InSection(2))
        /\ \A i \in Ids : InSection(i) => lock = i)
  /\ [][\A i \in Ids :
          InFlip(i) =>
            /\ ~InSection(Other(i))'
            /\ sigs'[Other(i)] = sigs[Other(i)]
            /\ nGo'[Other(i)] = nGo[Other(i)]
            /\ conn[Other(i)] # 0 =>
                 Len(s2c'[conn[Other(i)]]) <= Len(s2c[conn[Other(i)]])
            /\ turn' # turn => (turn' = Other(i) /\ hpc'[i] = "sleep")]_vars

FlipIsAtomicWitness ==
  /\ hpc[2] = "recv"
  /\ hpc[1] = "poll"
  /\ lock = 2
  /\ "WAIT" \in sigs[1]
  /\ c2s[conn[2]] # <<>>

\* C13: a handler in its poll-delay sleep does not hold the lock.
NoLockWhileSleeping == \A i \in Ids : hpc[i] = "sleep" => lock # i

NoLockWhileSleepingWitness ==
  /\ hpc[1] = "sleep"
  /\ "WAIT" \in sigs[1]
  /\ lock = 2
  /\ hpc[2] = "recv"

\* C14: turn is always 1 or 2, and it changes only in a step of the handler
\* i that holds the lock, with turn = i before the step, on a non-empty
\* reply of session i; every other step leaves turn unchanged.
TurnChangesOnlyOnAccept ==
  /\ [](turn \in {1, 2})
  /\ [][turn' # turn =>
          \E i \in Ids :
            /\ lock = i
            /\ turn = i
            /\ hpc[i] = "recv"
            /\ c2s[conn[i]] # <<>>
            /\ turn' = Other(i)
            /\ hpc'[i] = "sleep"
            /\ Len(accepted') = Len(accepted) + 1
            /\ accepted'[Len(accepted')].id = i]_vars

TurnChangesOnlyOnAcceptWitness ==
  /\ Len(accepted) = 2
  /\ turn = 1
  /\ \E c \in Clients : cpc[c] = "dead"
  /\ \E i \in Ids : hpc[i] = "done"

\* C15: a client transmits only when its last read is exactly GO and the
\* shared turn equals the identity of its session; it sends nothing on WAIT.
ClientSendsOnlyOnTurn ==
  [][\A c \in Clients :
       (nPay'[c] # nPay[c] \/ Len(c2s'[c]) > Len(c2s[c])) =>
         /\ response[c] = "GO"
         /\ \E i \in Ids : conn[i] = c /\ turn = i]_vars

ClientSendsOnlyOnTurnWitness ==
  \E c \in Clients :
    /\ conn[2] = c
    /\ turn = 2
    /\ nPay[c] = 2
    /\ c2s[c] # <<>>
    /\ "WAIT" \in sigs[2]

\* C16: the first accepted connection is served as session 1 and the second
\* as session 2, for good; the first accepted reply is session 1's, and it
\* is accepted with the name and the number that connection's client sent,
\* whatever they are.
IdentityByAcceptOrder ==
  /\ [](/\ mpc = "accept1" => (conn[1] = 0 /\ conn[2] = 0)
        /\ mpc = "accept2" => (conn[1] # 0 /\ conn[2] = 0)
        /\ mpc = "exit" => (conn[1] # 0 /\ conn[2] # 0 /\ conn[1] # conn[2])
        /\ accepted # <<>> =>
             /\ accepted[1].id = 1
             /\ accepted[1].name = client_name[conn[1]]
             /\ accepted[1].number = <<ToString(start_number(conn[1]))>>)
  /\ [][/\ \A i \in Ids : conn[i] # 0 => conn'[i] = conn[i]
        /\ (mpc = "accept1" /\ mpc' # mpc) =>
             (conn'[1] = Head(backlog) /\ hpc'[1] = "poll")
        /\ (mpc = "accept2" /\ mpc' # mpc) =>
             (conn'[2] = Head(backlog) /\ hpc'[2] = "poll")]_vars

IdentityByAcceptOrderWitness ==
  /\ conn[1] = 2
  /\ conn[2] = 1
  /\ Len(accepted) >= 2
  /\ accepted[1] = [id |-> 1, name |-> <<"Client2">>, number |-> <<"2">>]

\* C17: a handler that has ended stays ended: from then on it does not take
\* the lock, is not recorded as sending a signal, accepts no reply and does
\* not change turn.
DisconnectedIsTerminal ==
  [][\A i \in Ids :
       hpc[i] = "done" =>
         /\ hpc'[i] = "done"
         /\ lock' # i
         /\ sigs'[i] = sigs[i]
         /\ nGo'[i] = nGo[i]
         /\ Len(s2c'[conn[i]]) <= Len(s2c[conn[i]])
         /\ FromSession(i)' = FromSession(i)
         /\ turn' # turn => turn = Other(i)]_vars

DisconnectedIsTerminalWitness ==
  \E i \in Ids :
    /\ hpc[i] = "done"
    /\ Len(accepted) >= 2
    /\ lock = Other(i)
    /\ hpc[Other(i)] = "recv"
    /\ turn = Other(i)

\* C18: from the step in which handler i ends with turn = i onwards, turn
\* stays i, no GO is sent to either session and no reply is accepted.
TurnStuckAfterHolderEnds ==
  [][\A i \in Ids :
       (hpc'[i] = "done" /\ turn = i) =>
         /\ turn' = i
         /\ nGo' = nGo
         /\ accepted' = accepted]_vars

TurnStuckAfterHolderEndsWitness ==
  \E i \in Ids :
    /\ hpc[i] = "done"
    /\ turn = i
    /\ Len(accepted) >= 1
    /\ hpc[Other(i)] = "sleep"
    /\ cpc[conn[Other(i)]] = "handle"
    /\ response[conn[Other(i)]] = "WAIT"

\* C19: a connection holds at most one payload the server has not read,
\* and a client has transmitted no more payloads than its session has been
\* sent GO signals (none before its connection is accepted).
OnePayloadPerGo ==
  \A c \in Clients :
    /\ Len(c2s[c]) <= 1
    /\ Serving(c) = {} => nPay[c] = 0
    /\ \A i \in Serving(c) : nPay[c] <= nGo[i]

OnePayloadPerGoWitness ==
  \E c \in Clients :
    /\ nPay[c] = 2
    /\ Len(c2s[c]) = 1
    /\ \E i \in Serving(c) : nGo[i] = 2

====
